---- MODULE Spec2Model ----
(***************************************************************************)
(* prawcore.sessions: the retry strategy (RetryStrategy and                *)
(* FiniteRetryStrategy) and the request pipeline of Session                *)
(* (request, _request_with_retries, _make_request, _set_header_callback,   *)
(* _do_retry), modelled as a state machine.  One request runs through      *)
(* the program counter                                                     *)
(*     sleep -> callback -> transmit -> classify -> (sleep | done).        *)
(* The authorizer, the rate limiter and the requestor are collaborators    *)
(* of the session; the server's answer to a transmission is the input of   *)
(* the transmit step.                                                      *)
(***************************************************************************)
EXTENDS Integers, Sequences, FiniteSets, TLC

\* ---------------------------------------------------------------- bounds
\* Largest retry budget a request is started with.
MaxRetries == 3
\* Number of requests issued on one session.
MaxRequests == 2
\* Resolution of the clock: a second is TicksPerSecond ticks, and the
\* largest value of 2 * random.random() is 2 * TicksPerSecond - 1 ticks.
TicksPerSecond == 1

\* ------------------------------------------------------- program constants
\* FiniteRetryStrategy.__init__(self, retries=3)
DefaultRetries == 3

unauthorized == 401
no_content == 204

RETRY_EXCEPTIONS == {"ChunkedEncodingError", "ConnectionError", "ReadTimeout"}

RETRY_STATUSES == {520, 522, 502, 504, 500, 503}

\* STATUS_EXCEPTIONS without the CloudFlare statuses.
STATUS_EXCEPTIONS_named_only ==
    [s \in {502, 400, 409, 302, 403, 504, 500, 415, 404, 413, 503, 401,
            451} |->
        CASE s \in {502, 504, 500, 503} -> "ServerError"
          [] s = 400 -> "BadRequest"
          [] s = 409 -> "Conflict"
          [] s = 302 -> "Redirect"
          [] s \in {403, 401} -> "authorization_error_class"
          [] s = 415 -> "SpecialError"
          [] s = 404 -> "NotFound"
          [] s = 413 -> "TooLarge"
          [] s = 451 -> "UnavailableForLegalReasons"]

STATUS_EXCEPTIONS ==
    [s \in {502, 400, 409, 302, 403, 504, 500, 415, 404, 413, 503, 401,
            451, 520, 522} |->
        CASE s = 502 -> "ServerError"
          [] s = 400 -> "BadRequest"
          [] s = 409 -> "Conflict"
          [] s = 302 -> "Redirect"
          [] s = 403 -> "authorization_error_class"
          [] s = 504 -> "ServerError"
          [] s = 500 -> "ServerError"
          [] s = 415 -> "SpecialError"
          [] s = 404 -> "NotFound"
          [] s = 413 -> "TooLarge"
          [] s = 503 -> "ServerError"
          [] s = 401 -> "authorization_error_class"
          [] s = 451 -> "UnavailableForLegalReasons"
          [] s = 520 -> "ServerError"
          [] s = 522 -> "ServerError"]

SUCCESS_STATUSES == {201, 200}

\* ------------------------------------------------------------------ inputs
\* Statuses the server answers with: every status the session names, and
\* two it does not name.
OtherStatuses == {202, 429}

Statuses ==
    RETRY_STATUSES \cup DOMAIN STATUS_EXCEPTIONS \cup SUCCESS_STATUSES
        \cup {no_content} \cup OtherStatuses

\* Bodies of a response: empty, two JSON documents, and a text that is not
\* JSON.
Bodies == {"", "{\"ok\":true}", "[1]", "<html>"}

\* response.headers.get("content-length"): "0", a positive length, or no
\* such header (None).
ContentLengths == {"0", "17", "absent"}

\* The responses the transport delivers.  A response that declares
\* content-length 0 has an empty body and one that declares a positive
\* length has a non-empty one (the transport reads as many bytes as the
\* header declares).  Only a response of SUCCESS_STATUSES has its header
\* and body read: the others come with one body, empty for 204.
Responses ==
    {r \in [status_code : Statuses, content_length : ContentLengths,
            body : Bodies] :
        /\ r.content_length = "0" => r.body = ""
        /\ r.content_length = "17" => r.body # ""
        /\ r.status_code \notin SUCCESS_STATUSES =>
              IF r.status_code = no_content
              THEN r.content_length = "0"
              ELSE r.content_length = "17" /\ r.body = "<html>"}

\* response is None
NoResponse == [status_code |-> 0, content_length |-> "absent", body |-> ""]

\* Classes of exception.original_exception, with the class each derives
\* from (requests.exceptions): ConnectTimeout is a ConnectionError,
\* ReadTimeout is a Timeout.
ExceptionKinds ==
    {"ChunkedEncodingError", "ConnectionError", "ReadTimeout",
     "ConnectTimeout", "Timeout", "TooManyRedirects"}

BaseClass(kind) ==
    CASE kind = "ConnectTimeout" -> "ConnectionError"
      [] kind = "ReadTimeout" -> "Timeout"
      [] OTHER -> "RequestException"

\* isinstance(exception, classes)
IsInstance(kind, classes) ==
    \/ kind \in classes
    \/ BaseClass(kind) \in classes

\* response.json(): the decoded value, or ValueError.
ResponseJson(body) ==
    CASE body = "{\"ok\":true}" -> "dict(ok=True)"
      [] body = "[1]" -> "list(1)"
      [] OTHER -> "ValueError"

\* ----------------------------------------------------- request arguments
\* None, as the value of data or params.
NoValue == [type |-> "None", items |-> <<>>]

\* A dict: its items in insertion order, each <<name, value>>; values are
\* written as text.
Dict(items) == [type |-> "dict", items |-> items]

\* The names used as keys, in the order str compares them.
NameOrder == <<"a", "api_type", "b", "limit", "raw_json">>

\* x < y on two names.
NameLess(x, y) ==
    LET at(n) == CHOOSE i \in DOMAIN NameOrder : NameOrder[i] = n
    IN at(x) < at(y)

\* The arguments a caller passes to request(): a form of two fields with
\* query parameters, no body and no parameters, and a form that names
\* api_type itself with parameters that already name raw_json.
CallShapes ==
    {[data |-> Dict(<<<<"b", "2">>, <<"a", "1">>>>),
      params |-> Dict(<<<<"limit", "10">>>>)],
     [data |-> NoValue, params |-> NoValue],
     [data |-> Dict(<<<<"api_type", "xml">>, <<"a", "1">>>>),
      params |-> Dict(<<<<"raw_json", "0">>, <<"limit", "10">>>>)]}

\* d[name] = value on the items of a dict.
dict_set(items, name, value) ==
    IF \E i \in DOMAIN items : items[i][1] = name
    THEN [i \in DOMAIN items |->
             IF items[i][1] = name THEN <<name, value>> ELSE items[i]]
    ELSE Append(items, <<name, value>>)

\* The items in the order given: sorted() left out.
unsorted(items) == items

\* sorted(d.items()): the keys of a dict differ, so the names decide.
RECURSIVE sorted(_)
sorted(items) ==
    IF items = <<>>
    THEN <<>>
    ELSE LET least == CHOOSE i \in DOMAIN items :
                         \A j \in DOMAIN items :
                             j # i => NameLess(items[i][1], items[j][1])
             rest == [k \in 1..(Len(items) - 1) |->
                         IF k < least THEN items[k] ELSE items[k + 1]]
         IN <<items[least]>> \o sorted(rest)

\* Session.request: params = deepcopy(params) or {}; params["raw_json"] = 1
prepare_params(p) ==
    LET copy == IF p.type = "None" \/ p.items = <<>> THEN <<>> ELSE p.items
    IN Dict(dict_set(copy, "raw_json", "1"))

\* Session.request: a dict of data gets api_type and becomes the sorted
\* list of its items; any other data is passed on as it is.
prepare_data(d) ==
    IF d.type = "dict"
    THEN [type |-> "list",
          items |-> sorted(dict_set(d.items, "api_type", "json"))]
    ELSE d

\* Nothing was transmitted yet.
NotSent == [data |-> NoValue, params |-> NoValue, made |-> FALSE]

\* ------------------------------------------------------------------- state
VARIABLES
    retry_strategy,            \* Session._retry_strategy._retries
    has_refresh,               \* hasattr(self._authorizer, "refresh")
    access_token,              \* authorizer.access_token, 0 is None
    token_valid,               \* authorizer.is_valid()
    token_serial,              \* serial of the last token the authorizer got
    requests,                  \* requests issued on the session
    pc,                        \* position of the running request
    entry,                     \* how the running request was entered
    budget,                    \* _retries of the state it started with
    args,                      \* data and params the caller passed
    data,                      \* data of _request_with_retries
    params,                    \* params of _request_with_retries
    sent,                      \* data and params of the latest transmission
    retry_strategy_state,      \* _retries of the state of this attempt
    new_retry_strategy_state,  \* _retries of the state sleep() returned
    should_retry_on_failure,   \* the flag sleep() returned
    response,                  \* response of the latest attempt
    saved_exception,           \* exception absorbed by the latest attempt
    exception,                 \* original_exception the transport raised
    header,                    \* token of the Authorization header built
    header_valid,              \* is_valid() when that token was read
    header_builds,             \* calls of _set_header_callback in this request
    attempts,                  \* calls of _make_request in this request
    transmissions,             \* calls of the transport in this request
    sleep_log,                 \* one entry per sleep() call
    invalidations,             \* _clear_access_token calls in this request
    clear_serial,              \* token_serial at the latest invalidation
    retryable_outcomes,        \* attempts that ended in a retryable outcome
    decodes,                   \* response.json() calls in this request
    result,                    \* value returned by the request
    error                      \* exception raised by the request

vars ==
    <<retry_strategy, has_refresh, access_token, token_valid, token_serial,
      requests, pc, entry, budget, args, data, params, sent,
      retry_strategy_state, new_retry_strategy_state,
      should_retry_on_failure, response,
      saved_exception, exception, header, header_valid, header_builds,
      attempts, transmissions, sleep_log, invalidations, clear_serial,
      retryable_outcomes, decodes, result, error>>

session_vars == <<retry_strategy, has_refresh>>

authorizer_vars == <<access_token, token_valid, token_serial>>

call_vars == <<args, data, params>>

NoError == [kind |-> "None", response |-> NoResponse, cause |-> "None"]

NoResult == "<running>"

Terminal == {"returned", "raised"}

\* The budgets a request is started with.
Budgets == 1..MaxRetries


\* ----------------------------------------------------------- RetryStrategy
\* The value _sleep_seconds returns for None.
NoSleep == -1

\* 2 * random.random(), in ticks: the two ends of [0, 2).
Randoms == {0, 2 * TicksPerSecond - 1}

\* _consume_retry that takes two retries.
consume_retry_twice(retries) == retries - 2

\* FiniteRetryStrategy._consume_retry: the _retries of the new state.
consume_retry(retries) == retries - 1

\* _should_retry_on_failure off by one: a spent state still retries.
should_retry_on_failure_off_by_one(retries) == retries >= 0

\* FiniteRetryStrategy._should_retry_on_failure
should_retry_on_failure_of(retries) == retries > 0

\* _sleep_seconds without the test on the retries left.
sleep_seconds_no_threshold(retries, rnd) ==
    LET base == IF retries = 2 THEN 0 ELSE 2
    IN base * TicksPerSecond + rnd

\* _sleep_seconds with the two bases exchanged.
sleep_seconds_swapped(retries, rnd) ==
    IF retries < 3
    THEN LET base == IF retries = 2 THEN 2 ELSE 0
         IN base * TicksPerSecond + rnd
    ELSE NoSleep

\* _sleep_seconds that waits before the first attempt too.
sleep_seconds_eager(retries, rnd) ==
    IF retries <= 3
    THEN LET base == IF retries = 2 THEN 0 ELSE 2
         IN base * TicksPerSecond + rnd
    ELSE NoSleep

\* FiniteRetryStrategy._sleep_seconds, in ticks; rnd is 2 * random.random().
sleep_seconds(retries, rnd) ==
    IF retries < 3
    THEN LET base == IF retries = 2 THEN 0 ELSE 2
         IN base * TicksPerSecond + rnd
    ELSE NoSleep

\* _consume_retry that counts down in place and returns self.
receiver_after_consume_in_place(retries) == retries - 1

\* FiniteRetryStrategy._consume_retry: the _retries of the state it is
\* called on, after the call.  The new state is a new object.
receiver_after_consume(retries) == retries

\* RetryStrategy.sleep: the wait, the new state, the flag, and the
\* _retries of the state it was called on.
RetryStrategy_sleep(retries, rnd) ==
    LET new_state == consume_retry(retries)
    IN [seconds |-> sleep_seconds(retries, rnd),
        new_state |-> new_state,
        should_retry |-> should_retry_on_failure_of(new_state),
        receiver |-> receiver_after_consume(retries)]

\* ------------------------------------------------------------ rate limiter
\* RateLimiter.call: the header callback is called, then the transport.
RateLimiterCall == <<"callback", "transmit">>

\* -------------------------------------------------------------- authorizer
\* authorizer._clear_access_token()
clear_access_token ==
    /\ access_token' = 0
    /\ token_valid' = FALSE
    /\ token_serial' = token_serial

\* authorizer.refresh(): a new token, valid from now on.
refresh ==
    /\ access_token' = token_serial + 1
    /\ token_valid' = TRUE
    /\ token_serial' = token_serial + 1

\* The token expires as time passes: is_valid() turns false.  Only the
\* header callback reads is_valid(), so the expiry is taken between two
\* requests or right before the callback.
Expire ==
    /\ token_valid
    /\ pc \in {"idle", "callback"} \cup Terminal
    /\ token_valid' = FALSE
    /\ UNCHANGED <<retry_strategy, has_refresh, access_token, token_serial,
                   requests, pc, entry, budget, call_vars, sent,
                   retry_strategy_state,
                   new_retry_strategy_state, should_retry_on_failure,
                   response, saved_exception, exception, header,
                   header_valid, header_builds, attempts, transmissions,
                   sleep_log, invalidations, clear_serial,
                   retryable_outcomes, decodes, result, error>>

\* ----------------------------------------------------------------- Session
Init ==
    /\ retry_strategy = DefaultRetries
    /\ has_refresh \in BOOLEAN
    /\ access_token \in {0, 1}
    /\ token_valid \in {v \in BOOLEAN : v => access_token # 0}
    /\ token_serial = access_token
    /\ requests = 0
    /\ pc = "idle"
    /\ entry = "none"
    /\ budget = 0
    /\ args = [data |-> NoValue, params |-> NoValue]
    /\ data = NoValue
    /\ params = NoValue
    /\ sent = NotSent
    /\ retry_strategy_state = 0
    /\ new_retry_strategy_state = 0
    /\ should_retry_on_failure = FALSE
    /\ response = NoResponse
    /\ saved_exception = "None"
    /\ exception = "None"
    /\ header = 0
    /\ header_valid = FALSE
    /\ header_builds = 0
    /\ attempts = 0
    /\ transmissions = 0
    /\ sleep_log = <<>>
    /\ invalidations = 0
    /\ clear_serial = 0
    /\ retryable_outcomes = 0
    /\ decodes = 0
    /\ result = NoResult
    /\ error = NoError

\* Entry of _request_with_retries with the retry strategy state `state`.
StartRequest(state, how, d, p) ==
    /\ pc \in {"idle"} \cup Terminal
    /\ requests < MaxRequests
    /\ requests' = requests + 1
    /\ pc' = "sleep"
    /\ entry' = how
    /\ budget' = state
    /\ data' = d
    /\ params' = p
    /\ sent' = NotSent
    /\ retry_strategy_state' = state
    /\ new_retry_strategy_state' = 0
    /\ should_retry_on_failure' = FALSE
    /\ response' = NoResponse
    /\ saved_exception' = "None"
    /\ exception' = "None"
    /\ header' = 0
    /\ header_valid' = FALSE
    /\ header_builds' = 0
    /\ attempts' = 0
    /\ transmissions' = 0
    /\ sleep_log' = <<>>
    /\ invalidations' = 0
    /\ clear_serial' = 0
    /\ retryable_outcomes' = 0
    /\ decodes' = 0
    /\ result' = NoResult
    /\ error' = NoError
    /\ UNCHANGED <<session_vars, authorizer_vars>>

\* Session.request: params and data are prepared; retry_strategy_state is
\* None, so the attempts start from self._retry_strategy.
request ==
    \E call \in CallShapes :
        /\ args' = call
        /\ StartRequest(retry_strategy, "request",
                        prepare_data(call.data), prepare_params(call.params))

\* Session._request_with_retries called with a retry strategy state: data
\* and params are taken as they come.
request_with_retries ==
    \E n \in Budgets :
        /\ args' = [data |-> NoValue, params |-> NoValue]
        /\ StartRequest(n, "_request_with_retries", NoValue, NoValue)

\* _request_with_retries up to the call of the rate limiter: sleep() on the
\* state of this attempt, then _make_request.  The state of the first
\* attempt of request() is the object self._retry_strategy itself.
sleep ==
    /\ pc = "sleep"
    /\ \E rnd \in Randoms :
          LET s == RetryStrategy_sleep(retry_strategy_state, rnd)
          IN /\ sleep_log' = Append(sleep_log,
                    [retries |-> retry_strategy_state,
                     seconds |-> s.seconds])
             /\ new_retry_strategy_state' = s.new_state
             /\ should_retry_on_failure' = s.should_retry
             /\ retry_strategy_state' = s.receiver
             /\ retry_strategy' =
                   IF entry = "request" /\ attempts = 0
                   THEN s.receiver
                   ELSE retry_strategy
    /\ attempts' = attempts + 1
    /\ pc' = RateLimiterCall[1]
    /\ UNCHANGED <<has_refresh, authorizer_vars, requests, entry, budget,
                   call_vars, sent, response, saved_exception, exception, header,
                   header_valid, header_builds, transmissions,
                   invalidations, clear_serial, retryable_outcomes, decodes,
                   result, error>>

\* _set_header_callback that reads the token before it refreshes.
set_header_callback_read_first ==
    /\ pc = "callback"
    /\ IF ~token_valid /\ has_refresh
       THEN refresh
       ELSE UNCHANGED authorizer_vars
    /\ header' = access_token
    /\ header_valid' = token_valid
    /\ header_builds' = header_builds + 1
    /\ pc' = RateLimiterCall[2]
    /\ UNCHANGED <<session_vars, requests, entry, budget, call_vars, sent,
                   retry_strategy_state, new_retry_strategy_state,
                   should_retry_on_failure, response, saved_exception,
                   exception, attempts, transmissions, sleep_log,
                   invalidations, clear_serial, retryable_outcomes, decodes,
                   result, error>>

\* _set_header_callback that never refreshes.
set_header_callback_stale ==
    /\ pc = "callback"
    /\ UNCHANGED authorizer_vars
    /\ header' = access_token'
    /\ header_valid' = token_valid'
    /\ header_builds' = header_builds + 1
    /\ pc' = RateLimiterCall[2]
    /\ UNCHANGED <<session_vars, requests, entry, budget, call_vars, sent,
                   retry_strategy_state, new_retry_strategy_state,
                   should_retry_on_failure, response, saved_exception,
                   exception, attempts, transmissions, sleep_log,
                   invalidations, clear_serial, retryable_outcomes, decodes,
                   result, error>>

\* Session._set_header_callback, called by the rate limiter before the
\* transport.
set_header_callback ==
    /\ pc = "callback"
    /\ IF ~token_valid /\ has_refresh
       THEN refresh
       ELSE UNCHANGED authorizer_vars
    /\ header' = access_token'
    /\ header_valid' = token_valid'
    /\ header_builds' = header_builds + 1
    /\ pc' = RateLimiterCall[2]
    /\ UNCHANGED <<session_vars, requests, entry, budget, call_vars, sent,
                   retry_strategy_state, new_retry_strategy_state,
                   should_retry_on_failure, response, saved_exception,
                   exception, attempts, transmissions, sleep_log,
                   invalidations, clear_serial, retryable_outcomes, decodes,
                   result, error>>

\* The except clause without the test of should_retry_on_failure.
reraises_kind_only(should_retry, kind) ==
    ~IsInstance(kind, RETRY_EXCEPTIONS)

\* The except clause with `and` in place of `or`.
reraises_both(should_retry, kind) ==
    ~should_retry /\ ~IsInstance(kind, RETRY_EXCEPTIONS)

\* The except clause of _make_request: TRUE when the exception is raised
\* again, FALSE when it is absorbed.
reraises(should_retry, kind) ==
    ~should_retry \/ ~IsInstance(kind, RETRY_EXCEPTIONS)

\* An outcome after which the pipeline may retry: a status of
\* RETRY_STATUSES or an exception of RETRY_EXCEPTIONS.
RetryableResponse(r) == r.status_code \in RETRY_STATUSES

\* Session._make_request: the transport call and what comes back.
make_request ==
    /\ pc = "transmit"
    /\ transmissions' = transmissions + 1
    /\ sent' = [data |-> data, params |-> params, made |-> TRUE]
    /\ \/ \E r \in Responses :
            /\ response' = r
            /\ saved_exception' = "None"
            /\ exception' = "None"
            /\ retryable_outcomes' =
                  retryable_outcomes + (IF RetryableResponse(r) THEN 1 ELSE 0)
            /\ pc' = "classify"
            /\ error' = error
       \/ \E kind \in ExceptionKinds :
            /\ response' = NoResponse
            /\ exception' = kind
            /\ retryable_outcomes' =
                  retryable_outcomes +
                     (IF IsInstance(kind, RETRY_EXCEPTIONS) THEN 1 ELSE 0)
            /\ IF reraises(should_retry_on_failure, kind)
               THEN /\ pc' = "raised"
                    /\ saved_exception' = "None"
                    /\ error' = [kind |-> "RequestException",
                                 response |-> NoResponse,
                                 cause |-> kind]
               ELSE /\ pc' = "classify"
                    /\ saved_exception' = kind
                    /\ error' = error
    /\ UNCHANGED <<session_vars, authorizer_vars, requests, entry, budget,
                   call_vars, retry_strategy_state,
                   new_retry_strategy_state,
                   should_retry_on_failure, header, header_valid,
                   header_builds, attempts, sleep_log, invalidations,
                   clear_serial, decodes, result>>

\* The test for 401 made on codes["forbidden"].
is_unauthorized_forbidden(r) == r # NoResponse /\ r.status_code = 403

\* response is not None and response.status_code == codes["unauthorized"]
is_unauthorized(r) == r # NoResponse /\ r.status_code = unauthorized

\* do_retry without the hasattr(..., "refresh") test.
do_retry_any_authorizer(r, refreshable) ==
    r # NoResponse /\ r.status_code = unauthorized

\* do_retry of _request_with_retries
do_retry_of(r, refreshable) == is_unauthorized(r) /\ refreshable

\* The retry branch taken on every status of STATUS_EXCEPTIONS.
retry_branch_any_error(should_retry, do_retry, r) ==
    should_retry /\ (do_retry \/ r = NoResponse
                                \/ r.status_code \in DOMAIN STATUS_EXCEPTIONS)

\* The condition of the retry branch of _request_with_retries.
retry_branch(should_retry, do_retry, r) ==
    should_retry /\ (do_retry \/ r = NoResponse
                                \/ r.status_code \in RETRY_STATUSES)

\* An exception of class `kind` raised with response r.
Raise(kind, r) ==
    [pc |-> "raised", result |-> NoResult, decoded |-> 0,
     error |-> [kind |-> kind, response |-> r, cause |-> "None"]]

\* A return of `value` after `decoded` calls of response.json().
Return(value, decoded) ==
    [pc |-> "returned", result |-> value, decoded |-> decoded,
     error |-> NoError]

\* The end of _request_with_retries without the test of content-length.
finish_no_length_check(r) ==
    IF r = NoResponse
    THEN Raise("AttributeError", NoResponse)
    ELSE IF r.status_code \in DOMAIN STATUS_EXCEPTIONS
    THEN Raise(STATUS_EXCEPTIONS[r.status_code], r)
    ELSE IF r.status_code = no_content
    THEN Return("None", 0)
    ELSE IF r.status_code \notin SUCCESS_STATUSES
    THEN Raise("AssertionError", NoResponse)
    ELSE IF ResponseJson(r.body) = "ValueError"
    THEN [Raise("BadJSON", r) EXCEPT !.decoded = 1]
    ELSE Return(ResponseJson(r.body), 1)

\* The end of _request_with_retries that returns "" when decoding fails.
finish_silent(r) ==
    IF r = NoResponse
    THEN Raise("AttributeError", NoResponse)
    ELSE IF r.status_code \in DOMAIN STATUS_EXCEPTIONS
    THEN Raise(STATUS_EXCEPTIONS[r.status_code], r)
    ELSE IF r.status_code = no_content
    THEN Return("None", 0)
    ELSE IF r.status_code \notin SUCCESS_STATUSES
    THEN Raise("AssertionError", NoResponse)
    ELSE IF r.content_length = "0"
    THEN Return("", 0)
    ELSE IF ResponseJson(r.body) = "ValueError"
    THEN Return("", 1)
    ELSE Return(ResponseJson(r.body), 1)

\* The end of _request_with_retries without its assert statement.
finish_no_assert(r) ==
    IF r = NoResponse
    THEN Raise("AttributeError", NoResponse)
    ELSE IF r.status_code \in DOMAIN STATUS_EXCEPTIONS
    THEN Raise(STATUS_EXCEPTIONS[r.status_code], r)
    ELSE IF r.status_code = no_content
    THEN Return("None", 0)
    ELSE IF r.content_length = "0"
    THEN Return("", 0)
    ELSE IF ResponseJson(r.body) = "ValueError"
    THEN [Raise("BadJSON", r) EXCEPT !.decoded = 1]
    ELSE Return(ResponseJson(r.body), 1)

\* _request_with_retries after the retry branch was not taken: how the
\* request ends on response r.
finish(r) ==
    IF r = NoResponse
    THEN Raise("AttributeError", NoResponse)
    ELSE IF r.status_code \in DOMAIN STATUS_EXCEPTIONS
    THEN Raise(STATUS_EXCEPTIONS[r.status_code], r)
    ELSE IF r.status_code = no_content
    THEN Return("None", 0)
    ELSE IF r.status_code \notin SUCCESS_STATUSES
    THEN Raise("AssertionError", NoResponse)
    ELSE IF r.content_length = "0"
    THEN Return("", 0)
    ELSE IF ResponseJson(r.body) = "ValueError"
    THEN [Raise("BadJSON", r) EXCEPT !.decoded = 1]
    ELSE Return(ResponseJson(r.body), 1)

\* _request_with_retries from `do_retry = False` on: invalidate on 401,
\* then retry (_do_retry), raise or return.
classify ==
    /\ pc = "classify"
    /\ IF is_unauthorized(response)
       THEN /\ clear_access_token
            /\ invalidations' = invalidations + 1
            /\ clear_serial' = token_serial
       ELSE UNCHANGED <<authorizer_vars, invalidations, clear_serial>>
    /\ IF retry_branch(should_retry_on_failure,
                       do_retry_of(response, has_refresh), response)
       THEN /\ pc' = "sleep"
            /\ retry_strategy_state' = new_retry_strategy_state
            /\ UNCHANGED <<decodes, result, error>>
       ELSE LET end == finish(response)
            IN /\ pc' = end.pc
               /\ result' = end.result
               /\ error' = end.error
               /\ decodes' = decodes + end.decoded
               /\ UNCHANGED retry_strategy_state
    /\ UNCHANGED <<session_vars, requests, entry, budget, call_vars, sent,
                   new_retry_strategy_state, should_retry_on_failure,
                   response, saved_exception, exception, header,
                   header_valid, header_builds, attempts, transmissions,
                   sleep_log, retryable_outcomes>>

Next ==
    \/ request
    \/ request_with_retries
    \/ sleep
    \/ set_header_callback
    \/ make_request
    \/ classify
    \/ Expire

Spec == Init /\ [][Next]_vars

\* The request in flight is always scheduled: the pipeline is synchronous.
FairSpec ==
    /\ Spec
    /\ WF_vars(sleep)
    /\ WF_vars(set_header_callback)
    /\ WF_vars(make_request)
    /\ WF_vars(classify)

TypeOK ==
    /\ pc \in {"idle", "sleep", "callback", "transmit", "classify"}
                \cup Terminal
    /\ attempts \in 0..MaxRetries
    /\ response \in Responses \cup {NoResponse}

\* ------------------------------------------------------------- properties
InFlight == {"sleep", "callback", "transmit", "classify"}

\* The waits of this request: the sleep() calls that called time.sleep.
Waits == {i \in DOMAIN sleep_log : sleep_log[i].seconds # NoSleep}

\* C1: for every budget n >= 1, a request all of whose attempts end in a
\* retryable outcome (a status of {500, 502, 503, 504, 520, 522} or a
\* retryable transport exception) makes exactly n attempts and raises the
\* error of the last one: ServerError with the last response, or the last
\* transport exception.
C1_AllFailingExhaustsBudget ==
    (pc \in Terminal /\ retryable_outcomes = attempts) =>
        /\ attempts = budget
        /\ transmissions = budget
        /\ pc = "raised"
        /\ IF exception = "None"
           THEN /\ response.status_code \in {500, 502, 503, 504, 520, 522}
                /\ error = [kind |-> "ServerError", response |-> response,
                            cause |-> "None"]
           ELSE error = [kind |-> "RequestException",
                         response |-> NoResponse, cause |-> exception]

C1_Witness ==
    /\ pc = "raised"
    /\ budget = MaxRetries
    /\ attempts = budget
    /\ retryable_outcomes = attempts
    /\ error.kind = "ServerError"
    /\ error.response.status_code = 520

\* C2: whatever the outcomes of the attempts, a request makes at most as
\* many attempts as its initial budget, retries after a 401 included, and
\* then returns or raises.
C2_BoundedAttemptsAndTermination ==
    /\ [](attempts <= budget /\ transmissions <= attempts)
    /\ (pc \in InFlight) ~> (pc \in Terminal)

C2_Witness ==
    /\ pc = "returned"
    /\ budget >= 3
    /\ attempts = budget
    /\ invalidations >= 1
    /\ retryable_outcomes >= 1

\* C3 as stated: sleep() on a state with r retries does not wait when
\* r >= 3, waits 2 seconds plus a jitter of [0, 2) when r = 2 and 0 seconds
\* plus a jitter of [0, 2) when r = 1.
C3_Stated ==
    \A i \in DOMAIN sleep_log :
        LET r == sleep_log[i].retries
            seconds == sleep_log[i].seconds
        IN /\ r >= 3 => seconds = NoSleep
           /\ r = 2 => seconds \in (2 * TicksPerSecond)..(4 * TicksPerSecond - 1)
           /\ r = 1 => seconds \in 0..(2 * TicksPerSecond - 1)

\* C3 amended: sleep() on a state with r retries does not wait when r >= 3,
\* waits 0 seconds plus a jitter of [0, 2) when r = 2 and 2 seconds plus a
\* jitter of [0, 2) when r = 1.
C3_SleepSchedule ==
    \A i \in DOMAIN sleep_log :
        LET r == sleep_log[i].retries
            seconds == sleep_log[i].seconds
        IN /\ r >= 3 => seconds = NoSleep
           /\ r = 2 => seconds \in 0..(2 * TicksPerSecond - 1)
           /\ r = 1 => seconds \in (2 * TicksPerSecond)..(4 * TicksPerSecond - 1)

C3_Witness ==
    /\ Len(sleep_log) = 3
    /\ sleep_log[1].retries = 3
    /\ sleep_log[2].retries = 2
    /\ sleep_log[3].retries = 1

\* The header of an attempt that follows a 401 answered to a refreshable
\* credential carries a token refreshed after the invalidation.
C4_FreshToken ==
    (pc = "transmit" /\ is_unauthorized(response) /\ has_refresh) =>
        /\ header # 0
        /\ header > clear_serial
        /\ header_valid

\* A 401 answered to a refreshable credential while should_retry_on_failure
\* holds invalidates the credential once and starts one more attempt.
C4_Step ==
    /\ (/\ pc = "classify"
        /\ pc' # "classify"
        /\ is_unauthorized(response)
        /\ has_refresh
        /\ should_retry_on_failure) =>
            /\ invalidations' = invalidations + 1
            /\ access_token' = 0
            /\ ~token_valid'
            /\ pc' = "sleep"
            /\ attempts' = attempts
    /\ (/\ pc \in {"sleep", "callback"}
        /\ pc' # pc
        /\ is_unauthorized(response)) =>
            /\ invalidations' = invalidations
            /\ attempts' = attempts + (IF pc = "sleep" THEN 1 ELSE 0)
            /\ pc' = (IF pc = "sleep" THEN "callback" ELSE "transmit")

\* C4: a 401 response, with a credential that supports refresh and
\* should_retry_on_failure true, invalidates the credential exactly once and
\* is followed by exactly one further attempt, whose Authorization header
\* carries a token obtained by a refresh made after the invalidation.
C4_UnauthorizedRefreshesAndRetries == []C4_FreshToken /\ [][C4_Step]_vars

C4_Witness ==
    /\ pc = "transmit"
    /\ is_unauthorized(response)
    /\ has_refresh
    /\ attempts = 2
    /\ invalidations = 1
    /\ header > clear_serial
    /\ clear_serial > 0

\* C5: a 401 response on an attempt with should_retry_on_failure false, or
\* with a credential that has no refresh, makes the request raise the
\* authorization error carrying that response with no further attempt, and
\* no 401 leads to an attempt beyond the budget.
C5_UnauthorizedRaises ==
    [][/\ (/\ pc = "classify"
           /\ pc' # "classify"
           /\ is_unauthorized(response)
           /\ (~should_retry_on_failure \/ ~has_refresh)) =>
               /\ pc' = "raised"
               /\ error' = [kind |-> "authorization_error_class",
                            response |-> response, cause |-> "None"]
               /\ attempts' = attempts
       /\ (is_unauthorized(response) /\ attempts' # attempts) =>
               attempts' <= budget']_vars

C5_Witness ==
    /\ pc = "raised"
    /\ is_unauthorized(response)
    /\ error.kind = "authorization_error_class"
    /\ has_refresh
    /\ budget = 3
    /\ attempts = 3
    /\ invalidations = 3

\* C6 as stated: when the credential is not valid and has no refresh, the
\* request raises InvalidInvocation before any call of the transport.
C6_Stated ==
    [][(/\ pc = "callback"
        /\ pc' # "callback"
        /\ ~token_valid
        /\ ~has_refresh) =>
            /\ pc' = "raised"
            /\ error'.kind = "InvalidInvocation"
            /\ transmissions' = 0]_vars

\* The error the classification table of the specification gives for a
\* status that is not retried.
FatalKind(status) ==
    CASE status = 400 -> "BadRequest"
      [] status = 403 -> "authorization_error_class"
      [] status = 404 -> "NotFound"
      [] status = 409 -> "Conflict"
      [] status = 302 -> "Redirect"
      [] status = 413 -> "TooLarge"
      [] status = 415 -> "SpecialError"
      [] status = 451 -> "UnavailableForLegalReasons"

\* C7: a response with a status of {400, 403, 404, 409, 302, 413, 415, 451}
\* makes the request raise the error of the table for that status, carrying
\* the response, on the attempt that received it, whatever budget remains.
C7_FatalStatusRaisesAtOnce ==
    [][(/\ pc = "classify"
        /\ pc' # "classify"
        /\ response.status_code \in {400, 403, 404, 409, 302, 413, 415, 451})
        =>  /\ pc' = "raised"
            /\ error' = [kind |-> FatalKind(response.status_code),
                         response |-> response, cause |-> "None"]
            /\ attempts' = attempts
            /\ result' = NoResult]_vars

C7_Witness ==
    /\ pc = "raised"
    /\ error.kind = "NotFound"
    /\ error.response.status_code = 404
    /\ should_retry_on_failure
    /\ attempts = 1

\* C8: a response with a status outside the retryable statuses, the
\* classification table, 204 and {200, 201} is never retried and never
\* returned: the request fails the assertion on that attempt.
C8_UnknownStatusFailsAssertion ==
    [][(/\ pc = "classify"
        /\ pc' # "classify"
        /\ response # NoResponse
        /\ response.status_code \notin
              {500, 502, 503, 504, 520, 522, 400, 401, 403, 404, 409, 302,
               413, 415, 451, 204, 200, 201})
        =>  /\ pc' = "raised"
            /\ error'.kind = "AssertionError"
            /\ result' = NoResult
            /\ attempts' = attempts
            /\ decodes' = decodes]_vars

C8_Witness ==
    /\ pc = "raised"
    /\ error.kind = "AssertionError"
    /\ response.status_code = 429
    /\ response.body = "<html>"
    /\ should_retry_on_failure

\* C9: with budget 3, when the first k < 3 attempts end in a retryable
\* outcome the request goes on to attempt k + 1, and when that attempt
\* answers 200 or 201 with a body that decodes the request has made k + 1
\* attempts, has waited k times, once before each retry and not before the
\* first attempt, and returns the decoded value of the last response.
C9_RetriesThenSuccess ==
    budget = 3 =>
        /\ (pc \in Terminal /\ retryable_outcomes = attempts) => attempts = 3
        /\ (/\ pc \in Terminal
            /\ retryable_outcomes = attempts - 1
            /\ response.status_code \in {200, 201}
            /\ response.body \in {"{\"ok\":true}", "[1]"}) =>
                /\ pc = "returned"
                /\ transmissions = attempts
                /\ Len(sleep_log) = attempts
                /\ Waits = 2..attempts
                /\ result = (IF response.body = "[1]"
                             THEN "list(1)" ELSE "dict(ok=True)")

C9_Witness ==
    /\ budget = 3
    /\ pc = "returned"
    /\ attempts = 3
    /\ retryable_outcomes = 2
    /\ response.status_code = 200
    /\ result = "dict(ok=True)"
    /\ Cardinality(Waits) = 2

\* The exceptions that are instances of ChunkedEncodingError,
\* ConnectionError or ReadTimeout.
RetryableKinds ==
    {"ChunkedEncodingError", "ConnectionError", "ReadTimeout",
     "ConnectTimeout"}

\* C10: a transport exception of a retryable kind raised on an attempt with
\* should_retry_on_failure true is absorbed and followed by another attempt;
\* one of any other kind, or one raised while should_retry_on_failure is
\* false, leaves the request unchanged on that attempt, with no further
\* attempt.
C10_TransportExceptions ==
    [][/\ (/\ pc = "transmit"
           /\ pc' # "transmit"
           /\ exception' # "None") =>
              IF exception' \in RetryableKinds /\ should_retry_on_failure
              THEN /\ pc' = "classify"
                   /\ response' = NoResponse
                   /\ saved_exception' = exception'
                   /\ error' = NoError
              ELSE /\ pc' = "raised"
                   /\ error' = [kind |-> "RequestException",
                                response |-> NoResponse,
                                cause |-> exception']
                   /\ attempts' = attempts
       /\ (/\ pc = "classify"
           /\ pc' # "classify"
           /\ response = NoResponse) =>
              /\ pc' = "sleep"
              /\ retry_strategy_state' = new_retry_strategy_state
              /\ error' = NoError]_vars

C10_Witness ==
    /\ pc = "callback"
    /\ attempts = 2
    /\ response = NoResponse
    /\ saved_exception = "ConnectTimeout"
    /\ exception = "ConnectTimeout"

\* C11: the decoder is called only for a final response of status 200 or
\* 201 whose content-length is not "0": a 204 response returns no value
\* and a 200 or 201 response with content-length "0" returns the empty
\* string, both without a call of the decoder.
C11_DecodeOnlyNonEmptySuccess ==
    /\ decodes \in {0, 1}
    /\ decodes = 1 =>
          /\ pc \in Terminal
          /\ response.status_code \in {200, 201}
          /\ response.content_length # "0"
    /\ (pc \in Terminal /\ response.status_code = 204) =>
          /\ pc = "returned"
          /\ result = "None"
          /\ decodes = 0
    /\ (/\ pc \in Terminal
        /\ response.status_code \in {200, 201}
        /\ response.content_length = "0") =>
          /\ pc = "returned"
          /\ result = ""
          /\ decodes = 0

C11_Witness ==
    /\ pc = "returned"
    /\ response.status_code = 201
    /\ response.content_length = "0"
    /\ result = ""
    /\ decodes = 0
    /\ attempts = 2

\* C12: a 200 or 201 response whose content-length is not "0" and whose
\* body does not decode makes the request raise BadJSON carrying the
\* response; it is not returned as an empty result and it is not retried.
C12_UndecodableBodyRaises ==
    [][(/\ pc = "classify"
        /\ pc' # "classify"
        /\ response.status_code \in {200, 201}
        /\ response.content_length # "0"
        /\ response.body \in {"", "<html>"}) =>
            /\ pc' = "raised"
            /\ error' = [kind |-> "BadJSON", response |-> response,
                         cause |-> "None"]
            /\ result' = NoResult
            /\ attempts' = attempts]_vars

C12_Witness ==
    /\ pc = "raised"
    /\ error.kind = "BadJSON"
    /\ error.response.status_code = 200
    /\ error.response.body = "<html>"
    /\ should_retry_on_failure
    /\ decodes = 1

\* The items of a list or dict, as a set.
ItemSet(items) == {items[i] : i \in DOMAIN items}

\* What C13 as stated says request() transmits: a sorted list that holds
\* every field of the caller and api_type=json, and parameters that hold
\* raw_json=1.
C13_StatedTransmitted ==
    (entry = "request" /\ sent.made) =>
        /\ <<"raw_json", "1">> \in ItemSet(sent.params.items)
        /\ args.data.type = "dict" =>
              /\ sent.data.type = "list"
              /\ ItemSet(args.data.items) \subseteq ItemSet(sent.data.items)
              /\ <<"api_type", "json">> \in ItemSet(sent.data.items)
              /\ \A i, j \in DOMAIN sent.data.items :
                    i < j => NameLess(sent.data.items[i][1],
                                      sent.data.items[j][1])

\* C13 as stated: for every form passed as the body, request() transmits
\* the list of (name, value) pairs sorted by name that holds every field of
\* the caller and api_type=json, the query parameters transmitted hold
\* raw_json=1, and every attempt transmits the same list and parameters.
C13_Stated ==
    /\ []C13_StatedTransmitted
    /\ [][(sent.made /\ sent'.made) => sent' = sent]_vars

\* The fields of the caller that are not named `name`.
FieldsBut(items, name) == {item \in ItemSet(items) : item[1] # name}

\* What request() transmits for the arguments of the caller.
C13_Transmitted ==
    (entry = "request" /\ sent.made) =>
        /\ <<"raw_json", "1">> \in ItemSet(sent.params.items)
        /\ ItemSet(sent.params.items) =
              FieldsBut(args.params.items, "raw_json")
                 \cup {<<"raw_json", "1">>}
        /\ args.data.type = "dict" =>
              /\ sent.data.type = "list"
              /\ ItemSet(sent.data.items) =
                    FieldsBut(args.data.items, "api_type")
                       \cup {<<"api_type", "json">>}
              /\ Len(sent.data.items) =
                    Cardinality(FieldsBut(args.data.items, "api_type")) + 1
              /\ \A i, j \in DOMAIN sent.data.items :
                    i < j => NameLess(sent.data.items[i][1],
                                      sent.data.items[j][1])
        /\ args.data.type # "dict" => sent.data = args.data

\* C13 amended: for a form passed as the body, request() transmits the list
\* of (name, value) pairs sorted by name that holds every field of the
\* caller not named api_type and the field api_type=json, which replaces a
\* field of the caller of that name; the query parameters transmitted hold
\* raw_json=1; and every attempt of the request transmits the same list
\* and parameters.
C13_FormSortedWithMarkers ==
    /\ []C13_Transmitted
    /\ [][(sent.made /\ sent'.made) => sent' = sent]_vars

C13_Witness ==
    /\ entry = "request"
    /\ transmissions = 2
    /\ sent.made
    /\ <<"api_type", "xml">> \in ItemSet(args.data.items)
    /\ sent.data.items = <<<<"a", "1">>, <<"api_type", "json">>>>
    /\ sent.params.items = <<<<"raw_json", "1">>, <<"limit", "10">>>>

\* C14: sleep() leaves the retries of the state it is called on as they
\* were, and a second call on that state returns the same new retries and
\* the same should_retry_on_failure flag, whatever the random draw.
C14_SleepIsPure ==
    pc = "callback" =>
        /\ retry_strategy_state = sleep_log[Len(sleep_log)].retries
        /\ \A rnd \in Randoms :
              LET again == RetryStrategy_sleep(retry_strategy_state, rnd)
              IN /\ again.new_state = new_retry_strategy_state
                 /\ again.should_retry = should_retry_on_failure
                 /\ again.receiver = retry_strategy_state

C14_Witness ==
    /\ pc = "callback"
    /\ attempts = 2
    /\ retry_strategy_state = 2
    /\ new_retry_strategy_state = 1
    /\ sleep_log[2].seconds # NoSleep

\* C15: in a request started with budget n >= 1 the states that the
\* successive sleep() calls return have n-1, n-2, ... retries, one less per
\* attempt, the flag returned is (retries of the new state > 0), and no
\* state has negative retries.
C15_RetriesCountDown ==
    attempts >= 1 =>
        /\ new_retry_strategy_state = budget - attempts
        /\ new_retry_strategy_state >= 0
        /\ should_retry_on_failure = (new_retry_strategy_state > 0)
        /\ \A i \in DOMAIN sleep_log : sleep_log[i].retries = budget - i + 1

C15_Witness ==
    /\ budget = 3
    /\ attempts = 3
    /\ new_retry_strategy_state = 0
    /\ ~should_retry_on_failure
    /\ pc = "classify"

\* C16: in every attempt sleep comes first, then the header is built, then
\* the transport is called; the header transmitted is the one the callback
\* built for that attempt, and with a credential that can refresh it never
\* carries a token read while the credential was not valid.
C16_SleepHeaderTransmit ==
    /\ Len(sleep_log) = attempts
    /\ pc = "callback" =>
          header_builds = attempts - 1 /\ transmissions = attempts - 1
    /\ pc = "transmit" =>
          /\ header_builds = attempts
          /\ transmissions = attempts - 1
          /\ header = access_token
    /\ pc \in {"classify", "sleep"} \cup Terminal =>
          header_builds = attempts /\ transmissions = attempts
    /\ (has_refresh /\ (pc = "transmit" \/ transmissions >= 1)) =>
          header_valid /\ header # 0

C16_Witness ==
    /\ pc = "classify"
    /\ has_refresh
    /\ attempts = 2
    /\ transmissions = 2
    /\ header_builds = 2
    /\ clear_serial >= 1
    /\ header > clear_serial

\* C17: every request() starts with the budget the session was built with,
\* 3, whatever the requests before it consumed and however they ended: no
\* request changes the retry strategy state the session stores.
C17_FullBudgetEveryRequest ==
    /\ retry_strategy = 3
    /\ entry = "request" =>
          /\ budget = 3
          /\ \A i \in DOMAIN sleep_log : sleep_log[i].retries = 4 - i

C17_Witness ==
    /\ requests = 2
    /\ entry = "request"
    /\ budget = 3
    /\ attempts = 3
    /\ pc = "raised"

\* C18: the credential is invalidated once for every 401 response, also
\* when no retry follows, so when the request raises the authorization
\* error for a 401 the credential has been invalidated.
C18_EveryUnauthorizedInvalidates ==
    /\ []((/\ pc = "raised"
           /\ error.kind = "authorization_error_class"
           /\ error.response.status_code = 401) =>
              /\ access_token = 0
              /\ ~token_valid
              /\ invalidations >= 1)
    /\ [][(pc = "classify" /\ pc' # "classify") =>
             IF response.status_code = 401
             THEN /\ invalidations' = invalidations + 1
                  /\ access_token' = 0
                  /\ ~token_valid'
             ELSE invalidations' = invalidations]_vars

C18_Witness ==
    /\ pc = "raised"
    /\ error.kind = "authorization_error_class"
    /\ error.response.status_code = 401
    /\ ~has_refresh
    /\ should_retry_on_failure
    /\ token_serial = 1
    /\ access_token = 0
    /\ invalidations = 1

\* C19: when an attempt yields no response, should_retry_on_failure is true
\* for that attempt, the retry branch is taken, and the status of an absent
\* response is never looked up.
C19_NoResponseAlwaysRetries ==
    /\ []((pc = "classify" /\ response = NoResponse) =>
              /\ should_retry_on_failure
              /\ saved_exception # "None")
    /\ [](error.kind # "AttributeError")
    /\ [][(pc = "classify" /\ pc' # "classify" /\ response = NoResponse) =>
             (pc' = "sleep" /\ attempts < budget)]_vars

C19_Witness ==
    /\ pc = "classify"
    /\ response = NoResponse
    /\ saved_exception = "ReadTimeout"
    /\ attempts = 2
    /\ budget = 3

\* C20: no wait comes before the first attempt of a request() made through
\* a Session; the waits come before the second and the third attempt.
C20_NoWaitBeforeFirstAttempt ==
    entry = "request" =>
        /\ Len(sleep_log) <= 3
        /\ Waits = 2..Len(sleep_log)

C20_Witness ==
    /\ entry = "request"
    /\ Len(sleep_log) = 3
    /\ sleep_log[1].seconds = NoSleep
    /\ sleep_log[2].seconds # NoSleep
    /\ sleep_log[3].seconds # NoSleep

====
